---- MODULE Spec2Model ----
(***************************************************************************)
(* Model of the three activity exporters of perf_review:                   *)
(*   gh_export.py        source-hosting exporter (req / paginate / main)   *)
(*   gdocs_export.py     document-activity exporter                        *)
(*   calendar_export.py  calendar exporter                                 *)
(* One run of one exporter is one behaviour; Init picks the exporter and   *)
(* the command line, the remote API's answers are chosen by the actions.   *)
(* Spec follows the runs whose window is given on the command line;        *)
(* SpecWindow is the window resolution for every command line.             *)
(***************************************************************************)
EXTENDS Integers, Sequences, FiniteSets, TLC

VARIABLES
    exporter,    \* which script runs: "gh", "gdocs" or "calendar"
    sinceArg,    \* args.since: a day, or Absent
    untilArg,    \* args.until: a day, or Absent
    today,       \* the day the run takes place
    since,       \* the local since of main(): args.since, then the resolved first day
    until,       \* the local until of main(): args.until, then the resolved last day
    phase,       \* position of main()
    fstate,      \* paginate generator: INIT, FETCH_PAGE, BACKOFF, YIELDED, DONE, FAILED
    pageNo,      \* cursor: number of the page being requested / last yielded
    sends,       \* session.request calls made for the request in progress
    backoffs,    \* time.sleep calls made for the request in progress
    rl,          \* headers and clock read when the rate limit was hit
    slept,       \* seconds passed to time.sleep for the request in progress
    pending,     \* items of the yielded page the caller has not processed yet
    hasNext,     \* the last successful response carried a next cursor
    delivered,   \* page numbers handed to the caller in the current query
    dstate,      \* req() of get_pr_details: "idle" or "BACKOFF"
    raised,      \* the last HTTPError raised by req()
    rows,        \* accumulated rows
    repos,       \* result of list_user_repos
    repoIdx,     \* position of the per-repository commit loop
    written,     \* output files written so far
    dedup,       \* gdocs: the deduplicated row list
    files,       \* gdocs: per-file rollups, in insertion order
    files_list,  \* gdocs: the sorted summary list
    resp         \* gdocs: the activities of the last response, each with the loop's outcome

args == <<sinceArg, untilArg, today>>

vars == <<args, exporter, since, until, phase, fstate, pageNo, sends, backoffs, rl,
          slept, pending, hasNext, delivered, dstate, raised, rows, repos,
          repoIdx, written, dedup, files, files_list, resp>>

-----------------------------------------------------------------------------
(* Bounds of the model *)

MaxDay == 3
MaxPages == 2
MaxRows == 2

Days == 1..MaxDay

-----------------------------------------------------------------------------
(* Timestamps.  A timestamp string is modelled by its day, its second and  *)
(* its format: "iso" is YYYY-MM-DDTHH:MM:SSZ, "frac" carries fractional    *)
(* seconds that fromisoformat accepts, "raw" starts with a date but is not *)
(* accepted by fromisoformat, "empty" is the empty string.                 *)

Ts(d, s, fmt) == [d |-> d, s |-> s, fmt |-> fmt]

EmptyTs == Ts(0, 0, "empty")

Parseable(ts) == ts.fmt \in {"iso", "frac"}

\* iso(): "" stays "", a parseable string is re-formatted to whole seconds
\* with a Z suffix, anything else is returned unchanged.
Iso(ts) ==
    IF ts.fmt = "empty" THEN ts
    ELSE IF Parseable(ts) THEN Ts(ts.d, ts.s, "iso")
    ELSE ts

\* when[:10]
DatePrefix(ts) == ts.d

-----------------------------------------------------------------------------
(* gh_export.py: req *)

Response(status, remaining) == [status |-> status, remaining |-> remaining]

\* status code and X-RateLimit-Remaining header of the answers of the API
Responses ==
    { Response(200, "1"), Response(403, "0"), Response(403, "1"),
      Response(429, "0"), Response(500, "1") }

\* the condition of the if in req
IsRateLimited(r) == r.status = 403 /\ r.remaining = "0"

\* r.raise_for_status()
RaiseForStatus(r) == r.status >= 400 /\ r.status < 600

\* X-RateLimit-Reset values (0 when the header is missing) and clock values
ResetValues == {0, 55, 90}
NowValues == {50, 60}

\* mutant of SleepSeconds: the floor of 10 seconds is missing
SleepSecondsNoFloor(reset, now) == reset - now + 2

\* sleep_s = max(reset - int(time.time()) + 2, 10)
SleepSeconds(reset, now) ==
    IF reset - now + 2 > 10 THEN reset - now + 2 ELSE 10

NoRl == [reset |-> 0, now |-> 0]
NoError == [ctx |-> "none", resp |-> Response(0, ""), sends |-> 0, repo |-> 0]

\* the locals of req() are gone when it returns or raises
ReqReturns ==
    /\ sends' = 0
    /\ backoffs' = 0
    /\ slept' = 0
    /\ rl' = NoRl

\* the rate-limit branch of req(): read the header and the clock, sleep
ReqBacksOff ==
    /\ \E reset \in ResetValues, now \in NowValues :
          /\ rl' = [reset |-> reset, now |-> now]
          /\ slept' = SleepSeconds(reset, now)
    /\ sends' = sends + 1
    /\ backoffs' = backoffs + 1

-----------------------------------------------------------------------------
(* gh_export.py: main, paginate and the callers of paginate *)

SeqsUpTo(S, n) == UNION { [1..k -> S] : k \in 0..n }

QueryPhases == {"PR", "Issue", "Review", "Repos", "Commits"}

\* mutant of NextPhase: the CSV is written before the repositories are listed
NextPhaseWriteEarly(ph) ==
    CASE ph = "PR" -> "Issue"
      [] ph = "Issue" -> "Review"
      [] ph = "Review" -> "WriteCsv"
      [] ph = "WriteCsv" -> "Repos"
      [] ph = "Repos" -> "Commits"
      [] ph = "Commits" -> "WriteMd"
      [] OTHER -> "Done"

\* the order of the sections of main()
NextPhase(ph) ==
    CASE ph = "PR" -> "Issue"
      [] ph = "Issue" -> "Review"
      [] ph = "Review" -> "Repos"
      [] ph = "Repos" -> "Commits"
      [] ph = "Commits" -> "WriteCsv"
      [] ph = "WriteCsv" -> "WriteMd"
      [] OTHER -> "Done"

\* mutant of OnHTTPError: no caller catches the HTTPError
OnHTTPErrorUncaught(ctx) == "abort"

\* what the caller of req() does with an HTTPError: list_commits_for_repo
\* returns, the PR loop of main() uses empty extra fields, nothing else
\* catches it.
OnHTTPError(ctx) ==
    CASE ctx = "Commits" -> "skip"
      [] ctx = "detail" -> "degrade"
      [] OTHER -> "abort"

RepoNames == {"r1", "r2"}

Item(repo, c, u) == [repo |-> repo, created |-> Ts(c, 0, "iso"), updated |-> u]

\* What the remote API can answer to the query of a phase: the search
\* qualifiers created:since..until (PR, Issue) and updated:since..until
\* (Review), and the since/until parameters of the commit listing.
ApiItems(ph) ==
    CASE ph \in {"PR", "Issue"} ->
            { Item("r1", c, c) : c \in since..until }
      [] ph = "Review" ->
            UNION { { Item("r1", c, u) : c \in 1..u } : u \in since..until }
      [] ph = "Commits" ->
            { Item(repos[repoIdx], c, c) : c \in since..until }
      [] OTHER -> {}

\* the pages the API can answer with: a page of the model carries at most
\* one item, and a repository is listed once
PageChoices(ph) ==
    IF ph = "Repos"
    THEN {<<>>} \cup
         { <<n>> : n \in { m \in RepoNames : \A i \in 1..Len(repos) : repos[i] # m } }
    ELSE {<<>>} \cup
         { <<it>> : it \in { x \in ApiItems(ph) : Len(rows) < MaxRows } }

\* add_row
Row(category, item, extra) ==
    [category |-> category, repo |-> item.repo,
     created_at |-> Iso(item.created), extra |-> extra]

CategoryOf(ph) ==
    CASE ph = "PR" -> "PR"
      [] ph = "Issue" -> "Issue"
      [] ph = "Review" -> "Review"
      [] OTHER -> "Commit"

ExtraOf(ph) ==
    CASE ph = "Issue" -> "state,labels"
      [] ph = "Review" -> "state"
      [] OTHER -> "none"

\* mutant of CallerAskedNext: the generator fetches ahead of its caller
CallerAskedNextEager == TRUE

\* the generator is resumed only when the caller's loop body has finished
\* with every item of the page it was handed
CallerAskedNext == pending = <<>> /\ dstate = "idle"

Goto(next) ==
    /\ phase' = next
    /\ fstate' = IF next \in QueryPhases THEN "INIT" ELSE "DONE"

\* the current query is over (exhausted, or abandoned by its caller)
AfterQuery ==
    IF phase = "Commits" /\ repoIdx < Len(repos)
    THEN /\ repoIdx' = repoIdx + 1
         /\ Goto("Commits")
    ELSE IF phase = "Repos" /\ Len(repos) > 0
    THEN /\ repoIdx' = 1
         /\ Goto(NextPhase("Repos"))
    ELSE IF phase = "Repos"
    THEN /\ repoIdx' = repoIdx
         /\ Goto(NextPhase(NextPhase("Repos")))
    ELSE /\ repoIdx' = repoIdx
         /\ Goto(NextPhase(phase))

\* INIT -> FETCH_PAGE: the first request of a query is about to be issued
GhStartQuery ==
    /\ exporter = "gh"
    /\ phase \in QueryPhases
    /\ fstate = "INIT"
    /\ fstate' = "FETCH_PAGE"
    /\ pageNo' = 1
    /\ delivered' = <<>>
    /\ hasNext' = FALSE
    /\ raised' = NoError
    /\ UNCHANGED <<args, resp, exporter, since, until, phase, sends, backoffs, rl, slept,
                   pending, dstate, rows, repos, repoIdx, written, dedup,
                   files, files_list>>

\* req() returned: paginate yields the page
PageOk ==
    /\ \E items \in PageChoices(phase), next \in BOOLEAN :
          /\ next => pageNo < MaxPages
          /\ pending' = items
          /\ hasNext' = next
    /\ fstate' = "YIELDED"
    /\ delivered' = Append(delivered, pageNo)
    /\ raised' = NoError
    /\ ReqReturns
    /\ UNCHANGED <<phase, repoIdx>>

\* req() raised inside paginate after n calls of session.request
PageRaise(r, n) ==
    /\ raised' = [ctx |-> phase, resp |-> r, sends |-> n, repo |-> repoIdx]
    /\ ReqReturns
    /\ UNCHANGED <<pending, hasNext, delivered>>
    /\ IF OnHTTPError(phase) = "skip"
       THEN AfterQuery
       ELSE /\ phase' = "Aborted"
            /\ fstate' = "FAILED"
            /\ repoIdx' = repoIdx

\* first session.request of req() for a page
GhSend ==
    /\ exporter = "gh"
    /\ fstate = "FETCH_PAGE"
    /\ \E r \in Responses :
          \/ /\ IsRateLimited(r)
             /\ ReqBacksOff
             /\ fstate' = "BACKOFF"
             /\ UNCHANGED <<phase, pending, hasNext, delivered, raised, repoIdx>>
          \/ /\ ~IsRateLimited(r)
             /\ RaiseForStatus(r)
             /\ PageRaise(r, sends + 1)
          \/ /\ ~IsRateLimited(r)
             /\ ~RaiseForStatus(r)
             /\ PageOk
    /\ UNCHANGED <<args, resp, exporter, since, until, pageNo, dstate, rows, repos,
                   written, dedup, files, files_list>>

\* the sleep is over: second session.request of req(), then raise_for_status
GhRetry ==
    /\ exporter = "gh"
    /\ fstate = "BACKOFF"
    /\ \E r \in Responses :
          \/ /\ RaiseForStatus(r)
             /\ PageRaise(r, sends + 1)
          \/ /\ ~RaiseForStatus(r)
             /\ PageOk
    /\ UNCHANGED <<args, resp, exporter, since, until, pageNo, dstate, rows, repos,
                   written, dedup, files, files_list>>

\* the caller's loop body over the page it was handed (Issue, Review,
\* Commits: add_row per item; Repos: repos.extend(page))
GhConsumePage ==
    /\ exporter = "gh"
    /\ phase \in {"Issue", "Review", "Repos", "Commits"}
    /\ fstate = "YIELDED"
    /\ pending # <<>>
    /\ pending' = <<>>
    /\ IF phase = "Repos"
       THEN /\ repos' = repos \o pending
            /\ rows' = rows
       ELSE /\ rows' = rows \o [i \in 1..Len(pending) |->
                                   Row(CategoryOf(phase), pending[i], ExtraOf(phase))]
            /\ repos' = repos
    /\ UNCHANGED <<args, resp, exporter, since, until, phase, fstate, pageNo, sends,
                   backoffs, rl, slept, hasNext, delivered, dstate, raised,
                   repoIdx, written, dedup, files, files_list>>

\* the PR loop body is over for the first pending item
DetailDone(extra) ==
    /\ rows' = Append(rows, Row("PR", Head(pending), extra))
    /\ pending' = Tail(pending)
    /\ dstate' = "idle"
    /\ ReqReturns
    /\ UNCHANGED <<phase, fstate>>

\* req() raised inside get_pr_details after n calls of session.request
DetailRaise(r, n) ==
    /\ raised' = [ctx |-> "detail", resp |-> r, sends |-> n, repo |-> repoIdx]
    /\ IF OnHTTPError("detail") = "degrade"
       THEN DetailDone("none")
       ELSE /\ phase' = "Aborted"
            /\ fstate' = "FAILED"
            /\ ReqReturns
            /\ UNCHANGED <<rows, pending, dstate>>

\* get_pr_details: first session.request of req()
GhDetailSend ==
    /\ exporter = "gh"
    /\ phase = "PR"
    /\ fstate = "YIELDED"
    /\ pending # <<>>
    /\ dstate = "idle"
    /\ \E r \in Responses :
          \/ /\ IsRateLimited(r)
             /\ ReqBacksOff
             /\ dstate' = "BACKOFF"
             /\ UNCHANGED <<phase, fstate, pending, rows, raised>>
          \/ /\ ~IsRateLimited(r)
             /\ RaiseForStatus(r)
             /\ DetailRaise(r, sends + 1)
          \/ /\ ~IsRateLimited(r)
             /\ ~RaiseForStatus(r)
             /\ DetailDone("details")
             /\ raised' = NoError
    /\ UNCHANGED <<args, resp, exporter, since, until, pageNo, hasNext, delivered, repos,
                   repoIdx, written, dedup, files, files_list>>

\* get_pr_details: second session.request of req(), then raise_for_status
GhDetailRetry ==
    /\ exporter = "gh"
    /\ phase = "PR"
    /\ dstate = "BACKOFF"
    /\ \E r \in Responses :
          \/ /\ RaiseForStatus(r)
             /\ DetailRaise(r, sends + 1)
          \/ /\ ~RaiseForStatus(r)
             /\ DetailDone("details")
             /\ raised' = NoError
    /\ UNCHANGED <<args, resp, exporter, since, until, pageNo, hasNext, delivered, repos,
                   repoIdx, written, dedup, files, files_list>>

\* the caller asks for the next page: paginate looks for rel="next"
GhResume ==
    /\ exporter = "gh"
    /\ fstate = "YIELDED"
    /\ CallerAskedNext
    /\ IF hasNext
       THEN /\ fstate' = "FETCH_PAGE"
            /\ pageNo' = pageNo + 1
       ELSE /\ fstate' = "DONE"
            /\ pageNo' = pageNo
    /\ raised' = NoError
    /\ UNCHANGED <<args, resp, exporter, since, until, phase, sends, backoffs, rl, slept,
                   pending, hasNext, delivered, dstate, rows, repos, repoIdx,
                   written, dedup, files, files_list>>

\* the for loop over the generator ends: main() goes on
GhQueryDone ==
    /\ exporter = "gh"
    /\ phase \in QueryPhases
    /\ fstate = "DONE"
    /\ AfterQuery
    /\ raised' = NoError
    /\ UNCHANGED <<args, resp, exporter, since, until, pageNo, sends, backoffs, rl, slept,
                   pending, hasNext, delivered, dstate, rows, repos, written,
                   dedup, files, files_list>>

GhWriteCsv ==
    /\ exporter = "gh"
    /\ phase = "WriteCsv"
    /\ written' = written \cup {"csv"}
    /\ Goto(NextPhase("WriteCsv"))
    /\ raised' = NoError
    /\ UNCHANGED <<args, resp, exporter, since, until, pageNo, sends, backoffs, rl, slept,
                   pending, hasNext, delivered, dstate, rows, repos, repoIdx,
                   dedup, files, files_list>>

GhWriteMd ==
    /\ exporter = "gh"
    /\ phase = "WriteMd"
    /\ written' = written \cup {"summary_md"}
    /\ Goto(NextPhase("WriteMd"))
    /\ raised' = NoError
    /\ UNCHANGED <<args, resp, exporter, since, until, pageNo, sends, backoffs, rl, slept,
                   pending, hasNext, delivered, dstate, rows, repos, repoIdx,
                   dedup, files, files_list>>

GhNext ==
    \/ GhStartQuery
    \/ GhSend
    \/ GhRetry
    \/ GhConsumePage
    \/ GhDetailSend
    \/ GhDetailRetry
    \/ GhResume
    \/ GhQueryDone
    \/ GhWriteCsv
    \/ GhWriteMd

-----------------------------------------------------------------------------
(* gdocs_export.py *)

MaxDocRows == 3

\* the page sizes of the model
DocPageSizes == {0, 1, 2}

Max(S) == CHOOSE x \in S : \A y \in S : y <= x

DocMime == "application/vnd.google-apps.document"
SheetMime == "application/vnd.google-apps.spreadsheet"

\* the value of driveItem: name is the path "items/<id>" as its segments
Target(name, mime, title) == [name |-> name, mime |-> mime, title |-> title]

\* actors is the list of the actors' user.knownUser.isCurrentUser flags
Activity(actors, primary, targets, hasTimestamp, timestamp, endTime) ==
    [actors |-> actors, primary |-> primary, targets |-> targets,
     hasTimestamp |-> hasTimestamp, timestamp |-> timestamp, endTime |-> endTime]

F1 == <<"items", "f1">>
F2 == <<"items", "f2">>
F3 == <<"items", "f3">>

\* the activities the Drive Activity API may report
ActivityPool ==
    { Activity(<<TRUE>>, {"edit"}, <<Target(F1, DocMime, "a")>>, TRUE, Ts(1, 0, "iso"), EmptyTs),
      Activity(<<TRUE>>, {"edit"}, <<Target(F1, DocMime, "b")>>, TRUE, Ts(1, 0, "frac"), EmptyTs),
      Activity(<<TRUE>>, {"edit"}, <<Target(F1, DocMime, "a")>>, TRUE, Ts(3, 1, "iso"), EmptyTs),
      Activity(<<FALSE, TRUE>>, {"comment"}, <<Target(F2, DocMime, "c")>>, TRUE, Ts(2, 1, "iso"), EmptyTs),
      Activity(<<TRUE>>, {"create", "edit"}, <<Target(F2, DocMime, "")>>, TRUE, Ts(1, 0, "raw"), EmptyTs),
      Activity(<<TRUE>>, {"edit"}, <<Target(F3, DocMime, "d")>>, TRUE, Ts(3, 0, "raw"), EmptyTs),
      Activity(<<TRUE>>, {"comment"}, <<Target(F1, DocMime, "a")>>, FALSE, EmptyTs, Ts(1, 0, "iso")),
      Activity(<<FALSE>>, {"edit"}, <<Target(F1, DocMime, "a")>>, TRUE, Ts(2, 0, "iso"), EmptyTs),
      Activity(<<TRUE>>, {"delete"}, <<Target(F1, DocMime, "a")>>, TRUE, Ts(2, 0, "iso"), EmptyTs),
      Activity(<<TRUE>>, {"edit"}, <<Target(<<"items", "s1">>, SheetMime, "s"),
                                 Target(F1, DocMime, "a")>>, TRUE, Ts(2, 0, "iso"), EmptyTs),
      Activity(<<TRUE>>, {"edit"}, <<Target(<<>>, DocMime, "n")>>, TRUE, Ts(2, 0, "iso"), EmptyTs),
      Activity(<<TRUE>>, {"edit"}, <<>>, TRUE, Ts(2, 0, "iso"), EmptyTs) }

\* any(is_me_actor(ac) for ac in actors)
IsMe(a) == \E i \in 1..Len(a.actors) : a.actors[i]

ActionKeys ==
    <<"create", "edit", "comment", "rename", "move", "restore", "delete",
      "permissionChange">>

Upper(k) ==
    CASE k = "create" -> "CREATE"
      [] k = "edit" -> "EDIT"
      [] k = "comment" -> "COMMENT"
      [] k = "rename" -> "RENAME"
      [] k = "move" -> "MOVE"
      [] k = "restore" -> "RESTORE"
      [] k = "delete" -> "DELETE"
      [] OTHER -> "PERMISSIONCHANGE"

\* action_label: the first key of the fixed order that primary holds
ActionLabel(primary) ==
    LET hits == { i \in 1..Len(ActionKeys) : ActionKeys[i] \in primary }
    IN  IF hits = {} THEN "OTHER"
        ELSE Upper(ActionKeys[CHOOSE i \in hits : \A j \in hits : i <= j])

\* activity_time
ActivityTime(a) == IF a.hasTimestamp THEN a.timestamp ELSE a.endTime

\* the loop over targets without its break: always the last target
TargetInfoNoBreak(targets) == targets[Len(targets)]

\* the loop over targets: the first target with a name, else the last one
TargetInfo(targets) ==
    LET named == { i \in 1..Len(targets) : targets[i].name # <<>> }
    IN  IF named = {} THEN targets[Len(targets)]
        ELSE targets[CHOOSE i \in named : \A j \in named : i <= j]

\* item_name.split("/")[-1]
FileId(name) == IF name = <<>> THEN "" ELSE name[Len(name)]

\* build_doc_url
BuildDocUrl(name) ==
    IF name = <<>> THEN <<>> ELSE <<"docs.google.com/document/d", FileId(name), "edit">>

\* the three continue statements of the activity loop
Accepted(a) ==
    /\ IsMe(a)
    /\ ActionLabel(a.primary) \in {"CREATE", "EDIT", "COMMENT"}
    /\ a.targets # <<>>
    /\ TargetInfo(a.targets).name # <<>>
    /\ TargetInfo(a.targets).mime = DocMime

DocRow(a) ==
    LET info == TargetInfo(a.targets)
        when == Iso(ActivityTime(a))
    IN  [date |-> DatePrefix(when), timestamp |-> when,
         action |-> ActionLabel(a.primary), title |-> info.title,
         file_id |-> FileId(info.name), url |-> BuildDocUrl(info.name),
         mimeType |-> info.mime]

RECURSIVE DocRows(_)
DocRows(acts) ==
    IF acts = <<>> THEN <<>>
    ELSE (IF Accepted(Head(acts)) THEN <<DocRow(Head(acts))>> ELSE <<>>)
         \o DocRows(Tail(acts))

\* the server-side filter "time >= since AND time <= until"
DocsApiActivities ==
    { a \in ActivityPool : ActivityTime(a).d \in since..until }

\* mutant of DedupKey: the action is not part of the key
DedupKeyNoAction(r) == <<r.timestamp, r.file_id>>

\* key of the seen set
DedupKey(r) == <<r.timestamp, r.action, r.file_id>>

RECURSIVE DedupeFrom(_, _)
DedupeFrom(rs, seen) ==
    IF rs = <<>> THEN <<>>
    ELSE IF DedupKey(Head(rs)) \in seen
         THEN DedupeFrom(Tail(rs), seen)
         ELSE <<Head(rs)>> \o DedupeFrom(Tail(rs), seen \cup {DedupKey(Head(rs))})

Dedupe(rs) == DedupeFrom(rs, {})

\* parse_ts: None is <<>>, a datetime is <<day, second>>
ParseTs(ts) == IF Parseable(ts) THEN <<ts.d, ts.s>> ELSE <<>>

\* comparison of two datetimes
DtLess(a, b) == a[1] < b[1] \/ (a[1] = b[1] /\ a[2] < b[2])

NewRollup(fid) ==
    [file_id |-> fid, title |-> "", url |-> <<>>,
     first_activity_dt |-> <<>>, last_activity_dt |-> <<>>,
     creates |-> 0, edits |-> 0, comments |-> 0, total_actions |-> 0,
     active_days |-> {}]

\* the counters moved under the test of the parsed timestamp
FoldRowCountsParsedOnly(fs, r) ==
    IF r.file_id = "" THEN fs
    ELSE
    LET found == { i \in 1..Len(fs) : fs[i].file_id = r.file_id }
        base == IF found = {} THEN Append(fs, NewRollup(r.file_id)) ELSE fs
        i == IF found = {} THEN Len(fs) + 1 ELSE CHOOSE k \in found : TRUE
        d0 == base[i]
        d1 == [d0 EXCEPT !.title = IF r.title # "" THEN r.title ELSE @,
                         !.url = IF r.url # <<>> THEN r.url ELSE @]
        t == ParseTs(r.timestamp)
        d2 == IF t # <<>>
              THEN [d1 EXCEPT
                      !.first_activity_dt = IF @ = <<>> \/ DtLess(t, @) THEN t ELSE @,
                      !.last_activity_dt = IF @ = <<>> \/ DtLess(@, t) THEN t ELSE @,
                      !.active_days = @ \cup {t[1]},
                      !.creates = IF r.action = "CREATE" THEN @ + 1 ELSE @,
                      !.edits = IF r.action = "EDIT" THEN @ + 1 ELSE @,
                      !.comments = IF r.action = "COMMENT" THEN @ + 1 ELSE @,
                      !.total_actions = @ + 1]
              ELSE d1
    IN  [base EXCEPT ![i] = d2]

\* mutant of FoldRow: a newer timestamp restarts the set of active days
FoldRowRestartsDays(fs, r) ==
    IF r.file_id = "" THEN fs
    ELSE
    LET found == { i \in 1..Len(fs) : fs[i].file_id = r.file_id }
        base == IF found = {} THEN Append(fs, NewRollup(r.file_id)) ELSE fs
        i == IF found = {} THEN Len(fs) + 1 ELSE CHOOSE k \in found : TRUE
        d0 == base[i]
        t == ParseTs(r.timestamp)
        d2 == IF t # <<>>
              THEN [d0 EXCEPT
                      !.active_days = IF d0.last_activity_dt # <<>> /\ DtLess(d0.last_activity_dt, t)
                                      THEN {t[1]} ELSE @ \cup {t[1]},
                      !.first_activity_dt = IF @ = <<>> \/ DtLess(t, @) THEN t ELSE @,
                      !.last_activity_dt = IF @ = <<>> \/ DtLess(@, t) THEN t ELSE @]
              ELSE d0
        d3 == [d2 EXCEPT
                 !.creates = IF r.action = "CREATE" THEN @ + 1 ELSE @,
                 !.edits = IF r.action = "EDIT" THEN @ + 1 ELSE @,
                 !.comments = IF r.action = "COMMENT" THEN @ + 1 ELSE @,
                 !.total_actions = @ + 1]
    IN  [base EXCEPT ![i] = d3]

\* one iteration of the summary loop; the dict keeps insertion order
FoldRow(fs, r) ==
    IF r.file_id = "" THEN fs
    ELSE
    LET found == { i \in 1..Len(fs) : fs[i].file_id = r.file_id }
        base == IF found = {} THEN Append(fs, NewRollup(r.file_id)) ELSE fs
        i == IF found = {} THEN Len(fs) + 1 ELSE CHOOSE k \in found : TRUE
        d0 == base[i]
        d1 == [d0 EXCEPT !.title = IF r.title # "" THEN r.title ELSE @,
                         !.url = IF r.url # <<>> THEN r.url ELSE @]
        t == ParseTs(r.timestamp)
        d2 == IF t # <<>>
              THEN [d1 EXCEPT
                      !.first_activity_dt = IF @ = <<>> \/ DtLess(t, @) THEN t ELSE @,
                      !.last_activity_dt = IF @ = <<>> \/ DtLess(@, t) THEN t ELSE @,
                      !.active_days = @ \cup {t[1]}]
              ELSE d1
        d3 == [d2 EXCEPT
                 !.creates = IF r.action = "CREATE" THEN @ + 1 ELSE @,
                 !.edits = IF r.action = "EDIT" THEN @ + 1 ELSE @,
                 !.comments = IF r.action = "COMMENT" THEN @ + 1 ELSE @,
                 !.total_actions = @ + 1]
    IN  [base EXCEPT ![i] = d3]

RECURSIVE FoldFrom(_, _)
FoldFrom(fs, rs) ==
    IF rs = <<>> THEN fs ELSE FoldFrom(FoldRow(fs, Head(rs)), Tail(rs))

FoldAll(rs) == FoldFrom(<<>>, rs)

\* datetime.isoformat() of a UTC datetime: fixed width, "+00:00" at the end
IsoFormat(dt) == <<dt[1], dt[2], "+00:00">>

\* strftime("%Y-%m-%d %H:%M:%S %Z")
Strftime(dt) == IF dt = <<>> THEN <<>> ELSE <<dt[1], dt[2], "UTC">>

\* str < str, on the keys "" and isoformat strings
StrLess(a, b) ==
    IF a = <<>> THEN b # <<>>
    ELSE IF b = <<>> THEN FALSE
    ELSE a[1] < b[1] \/ (a[1] = b[1] /\ a[2] < b[2])

SummaryEntry(d) ==
    [file_id |-> d.file_id, title |-> d.title, url |-> d.url,
     first_activity |-> Strftime(d.first_activity_dt),
     last_activity |-> Strftime(d.last_activity_dt),
     creates |-> d.creates, edits |-> d.edits, comments |-> d.comments,
     total_actions |-> d.total_actions,
     active_days |-> Cardinality(d.active_days),
     last_sort |-> IF d.last_activity_dt # <<>>
                   THEN IsoFormat(d.last_activity_dt) ELSE <<>>]

\* mutant of SortsBefore: reverse=True is missing
SortsBeforeAscending(x, y) == StrLess(x.last_sort, y.last_sort)

\* x goes in front of y in files_list.sort(key=_last_sort, reverse=True)
SortsBefore(x, y) == StrLess(y.last_sort, x.last_sort)

\* stable insertion: after every element that does not sort behind x
RECURSIVE InsertSorted(_, _)
InsertSorted(sorted, x) ==
    IF sorted = <<>> THEN <<x>>
    ELSE IF SortsBefore(x, Head(sorted))
         THEN <<x>> \o sorted
         ELSE <<Head(sorted)>> \o InsertSorted(Tail(sorted), x)

RECURSIVE SortFrom(_, _)
SortFrom(sorted, xs) ==
    IF xs = <<>> THEN sorted
    ELSE SortFrom(InsertSorted(sorted, Head(xs)), Tail(xs))

SortFilesList(xs) == SortFrom(<<>>, xs)

gdocsUnchanged ==
    UNCHANGED <<args, exporter, since, until, fstate, sends, backoffs, rl, slept,
                pending, hasNext, delivered, dstate, repos, repoIdx>>

\* one iteration of the query loop: execute(), the activity loop, the token
DocsFetchPage ==
    /\ exporter = "gdocs"
    /\ phase = "Fetch"
    /\ \/ \E acts \in SeqsUpTo(DocsApiActivities, Max(DocPageSizes)) :
             LET new == DocRows(acts)
             IN  /\ Len(rows) + Len(new) <= MaxDocRows
                 /\ rows' = rows \o new
                 /\ resp' = [i \in 1..Len(acts) |->
                               [activity |-> acts[i], kept |-> Accepted(acts[i])]]
                 /\ \E next \in BOOLEAN :
                        /\ next => pageNo < MaxPages
                        /\ pageNo' = IF next THEN pageNo + 1 ELSE pageNo
                        /\ phase' = IF next THEN "Fetch" ELSE "Dedupe"
                 /\ UNCHANGED raised
       \/ \E st \in {403, 429, 500} :
             /\ raised' = [ctx |-> "Fetch", resp |-> Response(st, "1"),
                           sends |-> 1, repo |-> 0]
             /\ phase' = "Aborted"
             /\ UNCHANGED <<rows, pageNo, resp>>
    /\ UNCHANGED <<written, dedup, files, files_list>>
    /\ gdocsUnchanged

DocsDedupe ==
    /\ exporter = "gdocs"
    /\ phase = "Dedupe"
    /\ dedup' = Dedupe(rows)
    /\ resp' = <<>>          \* the loop is over: resp is not read again
    /\ phase' = "WriteCsv"
    /\ UNCHANGED <<pageNo, raised, rows, written, files, files_list>>
    /\ gdocsUnchanged

DocsWriteCsv ==
    /\ exporter = "gdocs"
    /\ phase = "WriteCsv"
    /\ written' = written \cup {"csv"}
    /\ phase' = "Aggregate"
    /\ UNCHANGED <<resp, pageNo, raised, rows, dedup, files, files_list>>
    /\ gdocsUnchanged

\* the summary loop, the construction of files_list and its sort
DocsAggregate ==
    /\ exporter = "gdocs"
    /\ phase = "Aggregate"
    /\ files' = FoldAll(dedup)
    /\ files_list' = SortFilesList([i \in 1..Len(files') |-> SummaryEntry(files'[i])])
    /\ phase' = "WriteSummaryCsv"
    /\ UNCHANGED <<resp, pageNo, raised, rows, dedup, written>>
    /\ gdocsUnchanged

DocsWriteSummaryCsv ==
    /\ exporter = "gdocs"
    /\ phase = "WriteSummaryCsv"
    /\ written' = written \cup {"summary_csv"}
    /\ phase' = "WriteSummaryMd"
    /\ UNCHANGED <<resp, pageNo, raised, rows, dedup, files, files_list>>
    /\ gdocsUnchanged

DocsWriteSummaryMd ==
    /\ exporter = "gdocs"
    /\ phase = "WriteSummaryMd"
    /\ written' = written \cup {"summary_md"}
    /\ phase' = "Done"
    /\ UNCHANGED <<resp, pageNo, raised, rows, dedup, files, files_list>>
    /\ gdocsUnchanged

DocsNext ==
    \/ DocsFetchPage
    \/ DocsDedupe
    \/ DocsWriteCsv
    \/ DocsAggregate
    \/ DocsWriteSummaryCsv
    \/ DocsWriteSummaryMd

-----------------------------------------------------------------------------
(* calendar_export.py *)

Event(kind, d, s, e) == [kind |-> kind, d |-> d, s |-> s, e |-> e]

\* events.list(timeMin, timeMax): the events that end after timeMin and
\* start before timeMax; an all-day event has a date, the others a dateTime
CalApiEvents ==
    { ev \in { Event(k, d, 0, e) : k \in {"date", "dateTime"}, d \in Days, e \in Days } :
         /\ ev.d <= ev.e
         /\ ev.e >= since
         /\ ev.d <= until }

\* parse_event_time(event, "start")
ParseEventTime(ev) ==
    CASE ev.kind = "dateTime" -> Ts(ev.d, ev.s, "iso")
      [] ev.kind = "date" -> Ts(ev.d, 0, "iso")
      [] OTHER -> EmptyTs

CalRow(ev) ==
    LET start_str == ParseEventTime(ev)
    IN  [date |-> IF start_str.fmt # "empty" THEN DatePrefix(start_str) ELSE 0,
         start |-> start_str, kind |-> ev.kind]

calUnchanged ==
    UNCHANGED <<args, resp, exporter, since, until, sends, backoffs, rl, slept, hasNext,
                dstate, repos, repoIdx, dedup, files, files_list>>

\* events().list(...).execute()
CalRequest ==
    /\ exporter = "calendar"
    /\ phase = "Fetch"
    /\ fstate \in {"INIT", "FETCH_PAGE"}
    /\ \/ \E evs \in ({<<>>} \cup { <<ev>> : ev \in CalApiEvents }) :
             /\ Len(rows) + Len(evs) <= MaxRows
             /\ pending' = <<evs>>
             /\ fstate' = "YIELDED"
             /\ delivered' = Append(delivered, pageNo)
             /\ UNCHANGED <<phase, raised>>
       \/ \E st \in {403, 429, 500} :
             /\ raised' = [ctx |-> "Fetch", resp |-> Response(st, "1"),
                           sends |-> 1, repo |-> 0]
             /\ phase' = "Aborted"
             /\ fstate' = "FAILED"
             /\ UNCHANGED <<pending, delivered>>
    /\ UNCHANGED <<pageNo, rows, written>>
    /\ calUnchanged

\* the loop over resp["items"], then nextPageToken
CalProcess ==
    /\ exporter = "calendar"
    /\ phase = "Fetch"
    /\ fstate = "YIELDED"
    /\ rows' = rows \o [i \in 1..Len(pending[1]) |-> CalRow(pending[1][i])]
    /\ pending' = <<>>
    /\ \E next \in BOOLEAN :
          /\ next => pageNo < MaxPages
          /\ IF next
             THEN /\ pageNo' = pageNo + 1
                  /\ fstate' = "FETCH_PAGE"
                  /\ phase' = phase
             ELSE /\ pageNo' = pageNo
                  /\ fstate' = "DONE"
                  /\ phase' = "WriteCsv"
    /\ UNCHANGED <<delivered, raised, written>>
    /\ calUnchanged

CalWriteCsv ==
    /\ exporter = "calendar"
    /\ phase = "WriteCsv"
    /\ written' = written \cup {"csv"}
    /\ phase' = "WriteMd"
    /\ UNCHANGED <<fstate, pageNo, pending, delivered, raised, rows>>
    /\ calUnchanged

CalWriteMd ==
    /\ exporter = "calendar"
    /\ phase = "WriteMd"
    /\ written' = written \cup {"summary_md"}
    /\ phase' = "Done"
    /\ UNCHANGED <<fstate, pageNo, pending, delivered, raised, rows>>
    /\ calUnchanged

CalNext ==
    \/ CalRequest
    \/ CalProcess
    \/ CalWriteCsv
    \/ CalWriteMd

-----------------------------------------------------------------------------
FirstPhase(e) ==
    CASE e = "gh" -> "PR"
      [] OTHER -> "Fetch"

\* the value of an argument that was not given (None)
Absent == 0

ArgValues == Days \cup {Absent}

\* the days a run may take place on
Todays == {183, 184, 200}

\* timedelta(days=182)
DefaultDays == 182

\* daterange_defaults / default_range: <<since, until>>
DefaultRange(t) == <<t - DefaultDays, t>>

\* each bound defaulted on its own
ResolvedWindowPerBound(s, u, t) ==
    <<IF s = Absent THEN DefaultRange(t)[1] ELSE s,
      IF u = Absent THEN DefaultRange(t)[2] ELSE u>>

\* if not since or not until: since, until = default_range()
ResolvedWindow(s, u, t) ==
    IF s = Absent \/ u = Absent THEN DefaultRange(t) ELSE <<s, u>>

ResolveWindow ==
    /\ phase = "Args"
    /\ since' = ResolvedWindow(since, until, today)[1]
    /\ until' = ResolvedWindow(since, until, today)[2]
    /\ phase' = FirstPhase(exporter)
    /\ UNCHANGED <<args, exporter, fstate, pageNo, sends, backoffs, rl, slept,
                   pending, hasNext, delivered, dstate, raised, rows, repos,
                   repoIdx, written, dedup, files, files_list, resp>>

\* the locals of main() before its first statement after parse_args
InitLocals ==
    /\ since = sinceArg
    /\ until = untilArg
    /\ phase = "Args"
    /\ fstate = "INIT"
    /\ pageNo = 1
    /\ sends = 0
    /\ backoffs = 0
    /\ rl = NoRl
    /\ slept = 0
    /\ pending = <<>>
    /\ hasNext = FALSE
    /\ delivered = <<>>
    /\ dstate = "idle"
    /\ raised = NoError
    /\ resp = <<>>
    /\ rows = <<>>
    /\ repos = <<>>
    /\ repoIdx = 0
    /\ written = {}
    /\ dedup = <<>>
    /\ files = <<>>
    /\ files_list = <<>>

\* a run with both --since and --until given, since <= until
Init ==
    /\ exporter \in {"gh", "gdocs", "calendar"}
    /\ sinceArg \in Days
    /\ untilArg \in Days
    /\ sinceArg <= untilArg
    /\ today = Max(Todays)
    /\ InitLocals

\* a run with any command line
InitWindow ==
    /\ exporter \in {"gh", "gdocs", "calendar"}
    /\ sinceArg \in ArgValues
    /\ untilArg \in ArgValues
    /\ today \in Todays
    /\ InitLocals

Next == ResolveWindow \/ GhNext \/ DocsNext \/ CalNext

Spec == Init /\ [][Next]_vars

\* main() up to the resolved window
SpecWindow == InitWindow /\ [][ResolveWindow]_vars

-----------------------------------------------------------------------------
(* Properties *)

\* a response that signals a rate limit: HTTP 429, or HTTP 403 with
\* X-RateLimit-Remaining: 0
RateLimitSignal(r) ==
    r.status = 429 \/ (r.status = 403 /\ r.remaining = "0")

GhRaised == exporter = "gh" /\ raised.ctx # "none"

\* C1: no request is sent more than twice or backed off more than once, and
\* an error raised by the retry of a request (its second send) aborts the
\* job, whichever request it is.
C1_RetryOnceThenFatal ==
    /\ sends <= 2
    /\ backoffs <= 1
    /\ raised.sends <= 2
    /\ (GhRaised /\ raised.sends = 2) => phase = "Aborted"

\* C2: a response that signals a rate limit (429, or 403 with an exhausted
\* limit) is never raised as an HTTP error on the first send: it is raised
\* only after the backoff and the retry.
C2_RateLimitSignalBacksOff ==
    (GhRaised /\ RateLimitSignal(raised.resp)) => raised.sends = 2

\* C3: the wait of a backoff is max(resetEpoch - now + 2, 10): at least 10,
\* at least resetEpoch - now + 2, and equal to one of the two.
C3_SleepIsMaxOfResetAndTen ==
    backoffs > 0 =>
        /\ slept >= 10
        /\ slept >= rl.reset - rl.now + 2
        /\ slept \in {10, rl.reset - rl.now + 2}

C3_Witness ==
    /\ fstate = "BACKOFF"
    /\ backoffs = 1
    /\ rl.reset - rl.now + 2 > 10
    /\ slept = rl.reset - rl.now + 2

\* C4: pages are handed over in cursor order, one per successful fetch; a
\* request for page k+1 is in progress only when pages 1..k were handed to
\* the caller, the caller has processed all of their items and the last
\* response carried a next cursor; the fetcher is DONE only after a
\* response without a next cursor.
C4_NoReadAhead ==
    /\ exporter \in {"gh", "calendar"} =>
          \A i \in 1..Len(delivered) : delivered[i] = i
    /\ exporter = "gh" =>
          /\ fstate \in {"FETCH_PAGE", "BACKOFF"} =>
                /\ pending = <<>>
                /\ dstate = "idle"
                /\ pageNo = Len(delivered) + 1
                /\ pageNo > 1 => hasNext
          /\ fstate = "YIELDED" => Len(delivered) = pageNo
          /\ (fstate = "DONE" /\ phase \in QueryPhases) =>
                /\ ~hasNext
                /\ pending = <<>>
                /\ Len(delivered) = pageNo
    /\ exporter = "calendar" =>
          /\ (phase = "Fetch" /\ fstate \in {"INIT", "FETCH_PAGE"}) =>
                /\ pending = <<>>
                /\ pageNo = Len(delivered) + 1
          /\ fstate = "YIELDED" => Len(delivered) = pageNo

C4_Witness ==
    /\ exporter = "gh"
    /\ fstate = "FETCH_PAGE"
    /\ pageNo = 2
    /\ delivered = <<1>>
    /\ rows # <<>>

\* C5: an HTTP error that is no rate-limit signal aborts the job when it is
\* raised in one of the three searches; raised in the commit listing of a
\* repository it ends that listing and the job goes on with the next
\* repository (or, after the last one, with the output).
C5_NonRateLimitError ==
    (GhRaised /\ ~RateLimitSignal(raised.resp)) =>
        /\ raised.ctx \in {"PR", "Issue", "Review"} =>
              phase = "Aborted" /\ fstate = "FAILED"
        /\ raised.ctx = "Commits" =>
              \/ /\ phase = "Commits"
                 /\ fstate = "INIT"
                 /\ repoIdx = raised.repo + 1
              \/ /\ phase = "WriteCsv"
                 /\ raised.repo = Len(repos)

C5_Witness ==
    /\ GhRaised
    /\ raised.ctx = "Commits"
    /\ raised.resp.status = 500
    /\ raised.repo = 1
    /\ phase = "Commits"
    /\ repoIdx = 2

\* C6: a run that ends with a fatal error has written no output file, and
\* a file is written only when every fetch of the job is over.
C6_FatalErrorWritesNothing ==
    /\ phase = "Aborted" => written = {}
    /\ written # {} => phase \notin (QueryPhases \cup {"Fetch", "Dedupe", "Aborted"})

C6_Witness ==
    /\ phase = "Aborted"
    /\ rows # <<>>
    /\ written = {}

\* the day of a row
RowDate(r) ==
    IF exporter = "gh" THEN DatePrefix(r.created_at) ELSE r.date

\* C7: every row has a date within [since, until].
C7_RowsWithinWindow ==
    \A i \in 1..Len(rows) : RowDate(rows[i]) \in since..until

PostDedupe ==
    /\ exporter = "gdocs"
    /\ phase \in {"WriteCsv", "Aggregate", "WriteSummaryCsv", "WriteSummaryMd", "Done"}

PostAggregate ==
    /\ exporter = "gdocs"
    /\ phase \in {"WriteSummaryCsv", "WriteSummaryMd", "Done"}

KeyOfRow(r) == <<r.timestamp, r.action, r.file_id>>

\* the positions of rs that hold the first row of their key
FirstPositions(rs) ==
    { i \in 1..Len(rs) : \A j \in 1..(i - 1) : KeyOfRow(rs[j]) # KeyOfRow(rs[i]) }

\* the k-th smallest element of a set of positions
NthOf(P, k) == CHOOSE i \in P : Cardinality({ j \in P : j <= i }) = k

\* C8: the deduplicated list is the subsequence of the rows made of the
\* first row of each key (timestamp, action, file_id), in input order; no
\* two of its rows share a key; deduplicating it again changes nothing.
C8_DedupeFirstOccurrence ==
    PostDedupe =>
        /\ Len(dedup) = Cardinality(FirstPositions(rows))
        /\ \A k \in 1..Len(dedup) : dedup[k] = rows[NthOf(FirstPositions(rows), k)]
        /\ \A i, j \in 1..Len(dedup) : KeyOfRow(dedup[i]) = KeyOfRow(dedup[j]) => i = j
        /\ Dedupe(dedup) = dedup

C8_Witness ==
    /\ PostDedupe
    /\ Len(rows) = 3
    /\ Len(dedup) = 2
    /\ KeyOfRow(rows[1]) = KeyOfRow(rows[3])
    /\ rows[1].title # rows[3].title

OrdersOf(n) ==
    { p \in [1..n -> 1..n] : \A i, j \in 1..n : p[i] = p[j] => i = j }

\* counts, total and number of active days of every rollup
Stats(fs) ==
    { [file_id |-> fs[i].file_id, creates |-> fs[i].creates, edits |-> fs[i].edits,
       comments |-> fs[i].comments, total_actions |-> fs[i].total_actions,
       active_days |-> Cardinality(fs[i].active_days)] : i \in 1..Len(fs) }

\* C9: folding the rows in any order gives every file the same creates,
\* edits, comments, total_actions and number of active days.
C9_AggregationOrderIndependent ==
    PostAggregate =>
        \A p \in OrdersOf(Len(dedup)) :
            Stats(FoldAll([i \in 1..Len(dedup) |-> dedup[p[i]]])) = Stats(files)

C9_Witness ==
    /\ PostAggregate
    /\ Len(dedup) >= 3
    /\ \E i \in 1..Len(files) :
          /\ files[i].total_actions >= 2
          /\ Cardinality(files[i].active_days) >= 2
          /\ files[i].edits >= 1
          /\ files[i].comments >= 1

\* last_activity_dt of the rollup of a file
LastSeen(fid) ==
    LET i == CHOOSE k \in 1..Len(files) : files[k].file_id = fid
    IN  files[i].last_activity_dt

\* C10: the summary list holds every rollup once, in descending order of
\* last activity, and the rollups without a parseable timestamp come after
\* all the others.
C10_SortedByLastSeenDescending ==
    PostAggregate =>
        /\ Len(files_list) = Len(files)
        /\ { files_list[i].file_id : i \in 1..Len(files_list) } =
              { files[i].file_id : i \in 1..Len(files) }
        /\ \A i, j \in 1..Len(files_list) :
              i < j =>
                 LET a == LastSeen(files_list[i].file_id)
                     b == LastSeen(files_list[j].file_id)
                 IN  /\ a = <<>> => b = <<>>
                     /\ (a # <<>> /\ b # <<>>) => ~DtLess(a, b)

C10_Witness ==
    /\ PostAggregate
    /\ Len(files_list) = 3
    /\ files[1].last_activity_dt = <<>>
    /\ files[2].last_activity_dt # <<>>
    /\ files[3].last_activity_dt # <<>>
    /\ DtLess(files[2].last_activity_dt, files[3].last_activity_dt)

\* the activities of the last response, with the outcome of the loop
Fetched == { resp[i] : i \in 1..Len(resp) }

\* a named non-document target followed by a document target
NonDocThenDoc(a) ==
    /\ Len(a.targets) = 2
    /\ a.targets[1].name # <<>>
    /\ a.targets[1].mime # DocMime
    /\ a.targets[2].name # <<>>
    /\ a.targets[2].mime = DocMime

\* C11 as stated: an activity produces a row exactly when one of its actors
\* is the authenticated identity, its action label is CREATE, EDIT or
\* COMMENT, and at least one of its targets is a document-type item.
C11_AcceptedIffAnyDocTarget ==
    \A e \in Fetched :
        e.kept <=>
            /\ \E i \in 1..Len(e.activity.actors) : e.activity.actors[i]
            /\ ActionLabel(e.activity.primary) \in {"CREATE", "EDIT", "COMMENT"}
            /\ \E i \in 1..Len(e.activity.targets) :
                   e.activity.targets[i].mime = DocMime

\* C11, amended: an activity produces a row exactly when one of its actors
\* is the authenticated identity, its action label is CREATE, EDIT or
\* COMMENT, and the first of its targets that carries an item name is a
\* document-type item; a named non-document target followed by a document
\* target is rejected.
C11_AcceptedIffMainTargetIsDoc ==
    \A e \in Fetched :
        /\ e.kept <=>
              /\ \E i \in 1..Len(e.activity.actors) : e.activity.actors[i]
              /\ ActionLabel(e.activity.primary) \in {"CREATE", "EDIT", "COMMENT"}
              /\ \E i \in 1..Len(e.activity.targets) :
                     /\ e.activity.targets[i].name # <<>>
                     /\ e.activity.targets[i].mime = DocMime
                     /\ \A j \in 1..(i - 1) : e.activity.targets[j].name = <<>>
        /\ NonDocThenDoc(e.activity) => ~e.kept

C11_Witness ==
    /\ exporter = "gdocs"
    /\ Len(resp) = 2
    /\ NonDocThenDoc(resp[1].activity)
    /\ IsMe(resp[1].activity)
    /\ ~resp[1].kept
    /\ Len(resp[2].activity.actors) = 2
    /\ resp[2].kept
    /\ Len(rows) = 1

\* C12: after window resolution, if the since argument or the until
\* argument is absent (either one, or both), until is today and since is
\* today - 182 days, whatever bound was given; when both are given, the
\* window is the two arguments as given.
C12_WindowResolution ==
    phase # "Args" =>
        IF sinceArg = Absent \/ untilArg = Absent
        THEN until = today /\ since = today - 182
        ELSE since = sinceArg /\ until = untilArg

C12_Witness ==
    /\ phase # "Args"
    /\ sinceArg # Absent
    /\ untilArg = Absent
    /\ since # sinceArg
    /\ since = today - 182
    /\ until = today

\* the positions of the deduplicated rows folded into the rollup of fid
FoldedInto(fid) == { i \in 1..Len(dedup) : dedup[i].file_id = fid }

\* the instants of the rows at positions P whose timestamp is parseable
InstantsOf(P) ==
    { <<dedup[i].timestamp.d, dedup[i].timestamp.s>> :
          i \in { j \in P : Parseable(dedup[j].timestamp) } }

\* what the claim says of the counters and of firstSeen/lastSeen
CountsAndSeen(f, P) ==
    /\ f.total_actions = Cardinality(P)
    /\ f.creates = Cardinality({ i \in P : dedup[i].action = "CREATE" })
    /\ f.edits = Cardinality({ i \in P : dedup[i].action = "EDIT" })
    /\ f.comments = Cardinality({ i \in P : dedup[i].action = "COMMENT" })
    /\ IF InstantsOf(P) = {}
       THEN f.first_activity_dt = <<>> /\ f.last_activity_dt = <<>>
       ELSE /\ f.first_activity_dt \in InstantsOf(P)
            /\ f.last_activity_dt \in InstantsOf(P)
            /\ \A t \in InstantsOf(P) :
                  /\ ~DtLess(t, f.first_activity_dt)
                  /\ ~DtLess(f.last_activity_dt, t)

\* C13 as stated: every fold increments total_actions and the counter of
\* the row's action and adds the row's date to active_days, so that after
\* the summary loop a rollup's active_days is the set of the dates of all
\* the rows folded into it, and first/last activity are the minimum and the
\* maximum of their parseable timestamps.
C13_ActiveDaysOfAllRows ==
    PostAggregate =>
        \A k \in 1..Len(files) :
            LET P == FoldedInto(files[k].file_id)
            IN  /\ CountsAndSeen(files[k], P)
                /\ files[k].active_days = { dedup[i].date : i \in P }

\* C13, amended: every fold increments total_actions and the counter of the
\* row's action; the row's date is added to active_days, and first/last
\* activity updated, only when the row's timestamp is parseable.  After the
\* summary loop a rollup's active_days is the set of the dates of the rows
\* folded into it whose timestamp is parseable, and first/last activity are
\* the minimum and the maximum of those timestamps.
C13_ActiveDaysOfParseableRows ==
    PostAggregate =>
        /\ { files[k].file_id : k \in 1..Len(files) }
              = { dedup[i].file_id : i \in 1..Len(dedup) } \ {""}
        /\ \A k \in 1..Len(files) :
              LET P == FoldedInto(files[k].file_id)
              IN  /\ CountsAndSeen(files[k], P)
                  /\ files[k].active_days
                        = { dedup[i].date : i \in { j \in P : Parseable(dedup[j].timestamp) } }

C13_Witness ==
    /\ PostAggregate
    /\ \E k \in 1..Len(files) :
          LET P == FoldedInto(files[k].file_id)
          IN  /\ files[k].total_actions = 2
              /\ \E i \in P : ~Parseable(dedup[i].timestamp)
              /\ \E i \in P : Parseable(dedup[i].timestamp)
              /\ Cardinality({ dedup[i].date : i \in P }) = 2
              /\ Cardinality(files[k].active_days) = 1

====
